---- MODULE Spec2Model ----
(***************************************************************************)
(* Model of the keystroke-driven terminal prompts of TerminalInput.ts:     *)
(* YesNoKeyboardLoop (confirmation prompt) and PasswordKeyboardLoop        *)
(* (masked-line prompt), both driven by the KeyboardLoop engine,           *)
(* and of the marker files of InstallAction.onExecute (InstallAction.ts).  *)
(*                                                                         *)
(* JavaScript strings are modelled as sequences of one-character strings,  *)
(* so "hi" is <<"h", "i">> and '' is <<>>.  The value `undefined` is the   *)
(* string Undefined.  Everything written to stderr is a sequence of       *)
(* terminal operations, each a record [op, n, text].                       *)
(***************************************************************************)
EXTENDS Integers, Sequences, FiniteSets, TLC

(* ---------------------------- bounds ----------------------------------- *)

\* Number of keystrokes delivered to one prompt.
MaxKeys == 3

\* Largest column count reported by the terminal (0 = not reported).
MaxWidth == 3

\* Longest question text.
MaxQuestionLen == 1

\* Number of keystrokes of the width-10 typing scenario.
ScenarioLen == 6

\* Number of runs of InstallAction.onExecute.
MaxRuns == 2

(* --------------------------- constants --------------------------------- *)

\* `undefined`: a one-element sequence that no string is equal to, because
\* the elements of a string are single characters.
Undefined == << "undefined" >>

\* The booleans of an optional boolean (boolean | undefined).
True == << "true" >>
False == << "false" >>

\* Fallback of _getLineWrapWidth when stderr.columns is falsy.
DefaultWidth == 80

VARIABLES
  kind,            \* the loop the facade constructed: "YesNo" or "Password"
  phase,           \* startAsync: "Created", "Started" (awaiting), "Returned"
  question,        \* options.question
  defaultValue,    \* IPromptYesNoOptions.defaultValue
  passwordCharacter, \* IPromptPasswordOptions.passwordCharacter
  columns,         \* stderr.columns (0 when the stream reports none)
  resultYesNo,     \* YesNoKeyboardLoop.result
  resultPassword,  \* PasswordKeyboardLoop.result
  startX,          \* PasswordKeyboardLoop._startX
  printedY,        \* PasswordKeyboardLoop._printedY
  lastPrintedLength, \* PasswordKeyboardLoop._lastPrintedLength
  resolveCalls,    \* number of calls of resolveAsync so far
  cursorHidden,    \* whether the text cursor is hidden
  effects,         \* effects of the latest handler, in order
  returned,        \* value returned by promptYesNo / promptPasswordLine
  nKeys,           \* number of keystrokes delivered so far
  last,            \* the latest handler call: its key, the width it saw,
                   \* whether it redrew
  delivered,       \* YesNo: names of the keys delivered so far
  log,             \* YesNo: every effect since onStart returned
  resolvedWith,    \* Password: the buffer at the first call of resolveAsync
  pc,              \* InstallAction.onExecute: the statement it is at
  cleanInstall,    \* the --clean-install flag of the run
  cleanInstallFull, \* the --clean-install-full flag of the run
  npmToolFolder,   \* whether the NPM tool folder exists
  npmToolFlagFile, \* whether the tool folder's LastInstall.txt exists
  commonNodeModulesFolder, \* whether common/node_modules exists
  commonNpmFlagFile, \* the common LastInstall.txt: "none", "stale" (older
                   \* than package.json) or "current"
  needToPrune,     \* the local needToPrune
  ran,             \* what the run has done so far, in order
  runs,            \* number of runs of onExecute begun so far
  failedBefore     \* the install that made the previous run throw, or "none"

promptVars == << kind, phase, question, defaultValue, passwordCharacter,
                 columns, resultYesNo, resultPassword, startX, printedY,
                 lastPrintedLength, resolveCalls, cursorHidden, effects,
                 returned, nKeys, last, delivered, log, resolvedWith >>

installVars == << pc, cleanInstall, cleanInstallFull, npmToolFolder,
                  npmToolFlagFile, commonNodeModulesFolder, commonNpmFlagFile,
                  needToPrune, ran, runs, failedBefore >>

vars == << promptVars, installVars >>

(* ------------------------ JavaScript strings --------------------------- *)

Min(a, b) == IF a < b THEN a ELSE b
Max(a, b) == IF a > b THEN a ELSE b

\* String.prototype.substring(start, end): both indices are clamped to
\* [0, length] and swapped when start > end.
Substring(s, start, end) ==
  LET a == Min(Max(start, 0), Len(s))
      b == Min(Max(end, 0), Len(s))
      lo == Min(a, b)
      hi == Max(a, b)
  IN  SubSeq(s, lo + 1, hi)

\* String.prototype.substr(start, length): a negative start counts from the
\* end, the length is clamped to what is left.
Substr(s, start, length) ==
  LET a == IF start < 0 THEN Max(Len(s) + start, 0) ELSE Min(start, Len(s))
      n == Min(Max(length, 0), Len(s) - a)
  IN  SubSeq(s, a + 1, a + n)

\* String.prototype.lastIndexOf(ch): zero-based index of the last
\* occurrence, -1 when there is none.
LastIndexOf(s, ch) ==
  LET hits == { i \in 1..Len(s) : s[i] = ch }
  IN  IF hits = {} THEN -1
      ELSE (CHOOSE i \in hits : \A j \in hits : j <= i) - 1

(* ---------------------- colours and escape codes ----------------------- *)

\* One element stands for one complete SGR escape sequence.
AnsiCodes == { "\\e[32m", "\\e[39m", "\\e[1m", "\\e[22m" }

green(s) == << "\\e[32m" >> \o s \o << "\\e[39m" >>
bold(s) == << "\\e[1m" >> \o s \o << "\\e[22m" >>

\* AnsiEscape.removeCodes: drops every escape sequence.
removeCodes(s) == SelectSeq(s, LAMBDA c : c \notin AnsiCodes)

(* ------------------------ terminal operations -------------------------- *)

Write(text) == [op |-> "write", n |-> 0, text |-> text]
CursorTo(x) == [op |-> "cursorTo", n |-> x, text |-> << >>]
\* Variant: the line is cleared to the left of the cursor, whatever the
\* direction asked for.
ClearLine_ToLeft(dir) == [op |-> "clearLine", n |-> -1, text |-> << >>]

\* readline.clearLine(stream, dir): 1 clears from the cursor to the right,
\* -1 to the left of it.
ClearLine(dir) == [op |-> "clearLine", n |-> dir, text |-> << >>]
MoveCursorUp == [op |-> "moveCursor", n |-> -1, text |-> << >>]
HideCursorSeq == [op |-> "hideCursor", n |-> 0, text |-> << >>]
ShowCursorSeq == [op |-> "showCursor", n |-> 0, text |-> << >>]

(* ----------------------------- key events ------------------------------ *)

Key(character, name, sequence) ==
  [character |-> character, name |-> name, sequence |-> sequence]

KeyY == Key(<<"y">>, <<"y">>, <<"y">>)
KeyN == Key(<<"n">>, <<"n">>, <<"n">>)
KeyH == Key(<<"h">>, <<"h">>, <<"h">>)
KeyI == Key(<<"i">>, <<"i">>, <<"i">>)
KeyReturn == Key(<<"\r">>, <<"r", "e", "t", "u", "r", "n">>, <<"\r">>)
KeyEnter == Key(<<"\n">>, <<"e", "n", "t", "e", "r">>, <<"\n">>)
KeyBackspace == Key(<<"\\b">>, <<"b", "a", "c", "k", "s", "p", "a", "c", "e">>, <<"\\b">>)
KeyUp == Key(<< >>, <<"u", "p">>, <<"\\e[A">>)
KeySpace == Key(<<" ">>, <<"s", "p", "a", "c", "e">>, <<" ">>)
KeyBang == Key(<<"!">>, Undefined, <<"!">>)
KeyEmpty == Key(<<"?">>, Undefined, << >>)

YesNoKeys == { KeyY, KeyN, KeyReturn, KeyEnter, KeyH }
PasswordKeys == { KeyH, KeyI, KeyReturn, KeyEnter, KeyBackspace, KeyUp,
                  KeySpace, KeyBang, KeyEmpty }

(* --------------------------- configurations ---------------------------- *)

RECURSIVE StringsUpTo(_, _)
StringsUpTo(alphabet, n) ==
  IF n = 0 THEN { << >> }
  ELSE LET shorter == StringsUpTo(alphabet, n - 1)
       IN  shorter \cup { Append(s, c) : s \in shorter, c \in alphabet }

Questions == StringsUpTo({ "q", "\n" }, MaxQuestionLen)
Defaults == { True, False, Undefined }
Widths == 0..MaxWidth
PasswordCharacters == { Undefined, << >>, <<"*">>, <<"#", "@">> }

(* ------------------- KeyboardLoop (the loop engine) -------------------- *)

ResolveSignal == [op |-> "resolveAsync", n |-> 0, text |-> << >>]

\* What a handler has done so far: the effects it produced in order
\* (terminal writes and the completion signal), the cursor state and the
\* number of calls of resolveAsync.
Effects(out, hidden, calls) == [out |-> out, hidden |-> hidden, calls |-> calls]

write(c, text) == [c EXCEPT !.out = Append(@, Write(text))]
emit(c, termOp) == [c EXCEPT !.out = Append(@, termOp)]

\* KeyboardLoop.hideCursor / unhideCursor: write the control sequence that
\* hides / shows the text cursor.
hideCursor(c) == [c EXCEPT !.out = Append(@, HideCursorSeq), !.hidden = TRUE]
unhideCursor(c) == [c EXCEPT !.out = Append(@, ShowCursorSeq), !.hidden = FALSE]

\* KeyboardLoop.resolveAsync: signals completion to the caller suspended in
\* startAsync; the caller resumes later (action Return).
resolveAsync(c) == [c EXCEPT !.out = Append(@, ResolveSignal), !.calls = @ + 1]

resolved == resolveCalls > 0

\* The terminal operations among the effects.
TerminalOps(out) == SelectSeq(out, LAMBDA e : e.op # "resolveAsync")

(* -------------------------- YesNoKeyboardLoop -------------------------- *)

OptionSuffix(dflt) ==
  CASE dflt = True -> <<"(", "Y", "/", "n", ")">>
    [] dflt = False -> <<"(", "y", "/", "N", ")">>
    [] OTHER -> <<"(", "y", "/", "n", ")">>

\* YesNoKeyboardLoop.onStart
YesNoOnStart(c, q, dflt) ==
  LET c1 == write(c, green(<<"=", "=", ">">>) \o <<" ">>)
      c2 == write(c1, bold(q))
  IN  write(c2, <<" ">> \o bold(OptionSuffix(dflt)) \o <<" ">>)

\* Variant: Enter/Return takes the default as a plain boolean, so a missing
\* default counts as false.
YesNoSwitch_EnterCoercesDefault(result, name, dflt) ==
  CASE name = <<"y">> -> True
    [] name = <<"n">> -> False
    [] name \in { <<"e", "n", "t", "e", "r">>, <<"r", "e", "t", "u", "r", "n">> } ->
         IF dflt = True THEN True ELSE False
    [] OTHER -> result

\* The switch on key.name of YesNoKeyboardLoop.onKeypress.
YesNoSwitch(result, name, dflt) ==
  CASE name = <<"y">> -> True
    [] name = <<"n">> -> False
    [] name \in { <<"e", "n", "t", "e", "r">>, <<"r", "e", "t", "u", "r", "n">> } ->
         IF dflt # Undefined THEN dflt ELSE result
    [] OTHER -> result

YesNoEcho(result) ==
  IF result = True THEN <<"Y", "e", "s", "\n">> ELSE <<"N", "o", "\n">>

\* Variant: the guard is missing.
YesNoAlreadyResolved_Missing(result) == FALSE

\* The guard at the top of YesNoKeyboardLoop.onKeypress.
YesNoAlreadyResolved(result) == result # Undefined

\* YesNoKeyboardLoop.onKeypress: the new result and the effects.
YesNoOnKeypress(c, result, key, dflt) ==
  IF YesNoAlreadyResolved(result)
  THEN [result |-> result, c |-> c]
  ELSE LET r == YesNoSwitch(result, key.name, dflt)
       IN  IF r # Undefined
           THEN [result |-> r, c |-> resolveAsync(write(c, YesNoEcho(r)))]
           ELSE [result |-> r, c |-> c]

(* ------------------------- PasswordKeyboardLoop ------------------------ *)

\* PasswordKeyboardLoop._getLineWrapWidth
GetLineWrapWidth(cols) == IF cols # 0 THEN cols ELSE DefaultWidth

\* The question prefix written by onStart.
Prefix(q) == green(<<"=", "=", ">">>) \o <<" ">> \o bold(q) \o <<" ">>

\* The part of the prefix whose length onStart measures.
PrefixLine(prefix) ==
  LET found == LastIndexOf(prefix, "\n")
      lineStartIndex == IF found < 0 THEN 0 ELSE found
  IN  Substring(prefix, lineStartIndex, Len(prefix))

StartX(q, cols) == Len(removeCodes(PrefixLine(Prefix(q)))) % GetLineWrapWidth(cols)

\* PasswordKeyboardLoop.onStart: the effects; result is reset to ''.
PasswordOnStart(c, q) ==
  write(emit(emit(c, CursorTo(0)), ClearLine(1)), Prefix(q))

\* case 'backspace' of the switch in onKeypress.
Backspace(result) == Substring(result, 0, Len(result) - 1)

IsEnter(key) == key.name \in { <<"e", "n", "t", "e", "r">>, <<"r", "e", "t", "u", "r", "n">> }

\* Variant: only undefined is falsy.
Truthy_DefinedOnly(str) == str # Undefined

\* Truthiness of an optional string: neither undefined nor ''.
Truthy(str) == str # Undefined /\ str # << >>

\* Variant: the name of the key is not looked at.
Printable_IgnoresName(character, key) ==
  IF character = << >> THEN FALSE
  ELSE IF ~Truthy(key.name) /\ ~Truthy(key.sequence) THEN FALSE
  ELSE TRUE

\* The printable test of onKeypress.
Printable(character, key) ==
  IF character = << >> THEN FALSE
  ELSE IF Truthy(key.name) /\ Len(key.name) # 1
          /\ key.name # <<"s", "p", "a", "c", "e">> THEN FALSE
  ELSE IF ~Truthy(key.name) /\ ~Truthy(key.sequence) THEN FALSE
  ELSE TRUE

\* The buffer after the switch and the printable test.
EditBuffer(result, character, key) ==
  LET r == IF key.name = <<"b", "a", "c", "k", "s", "p", "a", "c", "e">> THEN Backspace(result) ELSE result
  IN  IF Printable(character, key) THEN r \o character ELSE r

\* Variant: a redraw of a buffer that did not grow clears as well.
NeedsClear_NotGrowing(len, lastLen) == len <= lastLen

\* needsClear of onKeypress.
NeedsClear(len, lastLen) == len < lastLen

\* Variant: the cursor is moved up one row at most.
RestoreY_Once(c, py, needsClear) ==
  IF py > 0
  THEN LET c1 == emit(c, CursorTo(0))
           c2 == IF needsClear THEN emit(c1, ClearLine(1)) ELSE c1
       IN  emit(c2, MoveCursorUp)
  ELSE c

\* The "Restore Y" loop: one round per printed row.
RECURSIVE RestoreY(_, _, _)
RestoreY(c, py, needsClear) ==
  IF py > 0
  THEN LET c1 == emit(c, CursorTo(0))
           c2 == IF needsClear THEN emit(c1, ClearLine(1)) ELSE c1
           c3 == emit(c2, MoveCursorUp)
       IN  RestoreY(c3, py - 1, needsClear)
  ELSE c

\* Variant: the configured mask is used whole.
PasswordCharacter_NotTruncated(option) ==
  IF option = Undefined THEN <<"*">> ELSE option

\* The glyph character chosen before the render loop.
PasswordCharacter(option) ==
  IF option = Undefined THEN <<"*">> ELSE Substr(option, 0, 1)

\* Variant: the typed character is echoed whatever the mask.
Glyph_Plain(result, i, pwChar) == Substr(result, i, 1)

\* What the render loop appends for the character at index i.
Glyph(result, i, pwChar) ==
  IF pwChar = << >> THEN Substr(result, i, 1) ELSE pwChar

\* Variant: the final column is not reserved.
WrapNeeded_FullWidth(column, cols) == column >= GetLineWrapWidth(cols)

\* The wrap test of the render loop.
WrapNeeded(column, cols) == column >= GetLineWrapWidth(cols) - 1

\* The render loop: state is [i, column, printedY, buffer].
RECURSIVE RenderLoop(_, _, _, _)
RenderLoop(st, result, pwChar, cols) ==
  IF st.i < Len(result)
  THEN LET buf1 == st.buffer \o Glyph(result, st.i, pwChar)
           i1 == st.i + 1
           col1 == st.column + 1
       IN  IF WrapNeeded(col1, cols)
           THEN RenderLoop([i |-> i1, column |-> 0, printedY |-> st.printedY + 1,
                            buffer |-> Append(buf1, "\n")], result, pwChar, cols)
           ELSE RenderLoop([i |-> i1, column |-> col1, printedY |-> st.printedY,
                            buffer |-> buf1], result, pwChar, cols)
  ELSE st

\* Variant: only the characters beyond the previously printed length are
\* rendered.
Render_Incremental(result, sx, pwChar, cols) ==
  RenderLoop([i |-> lastPrintedLength, column |-> sx, printedY |-> 0,
              buffer |-> << >>], result, pwChar, cols)

Render(result, sx, pwChar, cols) ==
  RenderLoop([i |-> 0, column |-> sx, printedY |-> 0, buffer |-> << >>],
             result, pwChar, cols)

\* Variant: an empty buffer that needs no clearing returns right after the
\* cursor is placed.
Redraw_EarlyReturn(c, result, lastLen, py, sx, option, cols) ==
  LET needsClear == NeedsClear(Len(result), lastLen)
      c1 == hideCursor(c)
      c2 == RestoreY(c1, py, needsClear)
      c3 == emit(c2, CursorTo(sx))
      r == Render(result, sx, PasswordCharacter(option), cols)
      c4 == write(c3, r.buffer)
      c5 == IF needsClear THEN emit(c4, ClearLine(1)) ELSE c4
  IN  IF result = << >> /\ ~needsClear
      THEN [c |-> c3, printedY |-> 0]
      ELSE [c |-> unhideCursor(c5), printedY |-> r.printedY]

\* The redraw of onKeypress, from hideCursor to unhideCursor.
Redraw(c, result, lastLen, py, sx, option, cols) ==
  LET needsClear == NeedsClear(Len(result), lastLen)
      c1 == hideCursor(c)
      c2 == RestoreY(c1, py, needsClear)
      c3 == emit(c2, CursorTo(sx))
      r == Render(result, sx, PasswordCharacter(option), cols)
      c4 == write(c3, r.buffer)
      c5 == IF needsClear THEN emit(c4, ClearLine(1)) ELSE c4
  IN  [c |-> unhideCursor(c5), printedY |-> r.printedY]

\* PasswordKeyboardLoop.onKeypress: the new fields and the effects.
PasswordOnKeypress(c, result, lastLen, py, sx, option, cols, character, key) ==
  IF IsEnter(key)
  THEN [result |-> result, lastPrintedLength |-> lastLen, printedY |-> py,
        c |-> resolveAsync(write(c, <<"\n">>))]
  ELSE LET r == EditBuffer(result, character, key)
           d == Redraw(c, r, lastLen, py, sx, option, cols)
       IN  [result |-> r, lastPrintedLength |-> Len(r),
            printedY |-> d.printedY, c |-> d.c]

(* ------------------------------ actions -------------------------------- *)

NoKey == Key(<< >>, Undefined, << >>)
Call(key, cols, redraw) == [key |-> key, columns |-> cols, redraw |-> redraw]
NoCall == Call(NoKey, 0, FALSE)

\* The prompt after construction, on a terminal whose column count is one
\* of widths.
PromptInitOn(widths) ==
  /\ kind \in { "YesNo", "Password" }
  /\ phase = "Created"
  /\ question \in Questions
  /\ IF kind = "YesNo"
     THEN defaultValue \in Defaults /\ passwordCharacter = Undefined
          /\ columns = 0
     ELSE defaultValue = Undefined /\ passwordCharacter \in PasswordCharacters
          /\ columns \in widths
  /\ resultYesNo = Undefined
  /\ resultPassword = << >>
  /\ startX = 0
  /\ printedY = 0
  /\ lastPrintedLength = 0
  /\ resolveCalls = 0
  /\ cursorHidden = FALSE
  /\ effects = << >>
  /\ returned = IF kind = "YesNo" THEN Undefined ELSE << >>
  /\ nKeys = 0
  /\ last = NoCall
  /\ delivered = << >>
  /\ log = << >>
  /\ resolvedWith = << >>

\* No run of InstallAction has begun.
NotInstalling ==
  /\ pc = "idle"
  /\ cleanInstall = FALSE
  /\ cleanInstallFull = FALSE
  /\ npmToolFolder = FALSE
  /\ npmToolFlagFile = FALSE
  /\ commonNodeModulesFolder = FALSE
  /\ commonNpmFlagFile = "none"
  /\ needToPrune = TRUE
  /\ ran = << >>
  /\ runs = 0
  /\ failedBefore = "none"

\* The state after construction of a prompt.
InitOn(widths) == PromptInitOn(widths) /\ NotInstalling

Init == InitOn(Widths)

\* startAsync up to its await: subscribes to keypress events and calls
\* onStart.
Start ==
  /\ phase = "Created"
  /\ phase' = "Started"
  /\ LET c0 == Effects(<< >>, cursorHidden, resolveCalls)
         c == IF kind = "YesNo" THEN YesNoOnStart(c0, question, defaultValue)
              ELSE PasswordOnStart(c0, question)
     IN  /\ effects' = c.out
         /\ cursorHidden' = c.hidden
         /\ resolveCalls' = c.calls
  /\ resultPassword' = << >>
  /\ startX' = IF kind = "Password" THEN StartX(question, columns) ELSE startX
  /\ last' = Call(NoKey, columns, FALSE)
  /\ UNCHANGED << kind, question, defaultValue, passwordCharacter, columns,
                  resultYesNo, printedY, lastPrintedLength, returned, nKeys,
                  delivered, log, resolvedWith >>
  /\ UNCHANGED installVars

\* One keypress event delivered to YesNoKeyboardLoop.onKeypress.
YesNoKeypress(key) ==
  /\ kind = "YesNo"
  /\ phase = "Started"
  /\ nKeys < MaxKeys
  /\ LET r == YesNoOnKeypress(Effects(<< >>, cursorHidden, resolveCalls),
                              resultYesNo, key, defaultValue)
     IN  /\ resultYesNo' = r.result
         /\ effects' = r.c.out
         /\ cursorHidden' = r.c.hidden
         /\ resolveCalls' = r.c.calls
         /\ log' = log \o r.c.out
  /\ delivered' = Append(delivered, key.name)
  /\ nKeys' = nKeys + 1
  /\ last' = Call(key, columns, FALSE)
  /\ UNCHANGED << kind, phase, question, defaultValue, passwordCharacter,
                  columns, resultPassword, startX, printedY,
                  lastPrintedLength, returned, resolvedWith >>
  /\ UNCHANGED installVars

\* One keypress event delivered to PasswordKeyboardLoop.onKeypress, as long
\* as fewer than limit events have been delivered.
PasswordKeypressUpTo(key, limit) ==
  /\ kind = "Password"
  /\ phase = "Started"
  /\ nKeys < limit
  /\ LET r == PasswordOnKeypress(Effects(<< >>, cursorHidden, resolveCalls),
                                 resultPassword, lastPrintedLength, printedY,
                                 startX, passwordCharacter, columns,
                                 key.character, key)
     IN  /\ resultPassword' = r.result
         /\ lastPrintedLength' = r.lastPrintedLength
         /\ printedY' = r.printedY
         /\ effects' = r.c.out
         /\ cursorHidden' = r.c.hidden
         /\ resolveCalls' = r.c.calls
         /\ resolvedWith' = IF resolveCalls = 0 /\ r.c.calls > 0
                            THEN resultPassword ELSE resolvedWith
  /\ nKeys' = nKeys + 1
  /\ last' = Call(key, columns, ~IsEnter(key))
  /\ UNCHANGED << kind, phase, question, defaultValue, passwordCharacter,
                  columns, resultYesNo, startX, returned, delivered, log >>
  /\ UNCHANGED installVars

\* One keypress event of the keys under study.
PasswordKeypress(key) == PasswordKeypressUpTo(key, MaxKeys)

\* The terminal is resized between two events: stderr.columns changes.
Resize(cols) ==
  /\ phase # "Returned"
  /\ cols # columns
  /\ columns' = cols
  /\ UNCHANGED << kind, phase, question, defaultValue, passwordCharacter,
                  resultYesNo, resultPassword, startX, printedY,
                  lastPrintedLength, resolveCalls, cursorHidden, effects,
                  returned, nKeys, last, delivered, log, resolvedWith >>
  /\ UNCHANGED installVars

\* The caller suspended in startAsync resumes after resolveAsync, the loop
\* stops listening, and the facade returns keyboardLoop.result.
Return ==
  /\ phase = "Started"
  /\ resolved
  /\ phase' = "Returned"
  /\ returned' = IF kind = "YesNo" THEN resultYesNo ELSE resultPassword
  /\ UNCHANGED << kind, question, defaultValue, passwordCharacter, columns,
                  resultYesNo, resultPassword, startX, printedY,
                  lastPrintedLength, resolveCalls, cursorHidden, effects,
                  nKeys, last, delivered, log, resolvedWith >>
  /\ UNCHANGED installVars

Next ==
  \/ Start
  \/ \E key \in YesNoKeys : YesNoKeypress(key)
  \/ \E key \in PasswordKeys : PasswordKeypress(key)
  \/ Return

\* Both prompts on a terminal of fixed width.
Spec == Init /\ [][Next]_vars

\* The masked-line prompt, default mask and empty question, on a terminal
\* that can be resized between any two events.
InitResize ==
  /\ Init
  /\ kind = "Password"
  /\ question = << >>
  /\ passwordCharacter = Undefined

NextResize ==
  \/ Start
  \/ \E key \in PasswordKeys : PasswordKeypress(key)
  \/ \E cols \in Widths : Resize(cols)
  \/ Return

SpecResize == InitResize /\ [][NextResize]_vars

\* The masked-line prompt with mask '*' and empty question on a terminal
\* ten columns wide, where the text "abcdef" is typed letter by letter,
\* with Backspace and the Up arrow in between.
ScenarioWidth == 10
ScenarioText == << "a", "b", "c", "d", "e", "f" >>
TypedKey(ch) == Key(<< ch >>, << ch >>, << ch >>)

\* The key of the next letter of the text, given what is in the buffer.
NextTypedKey(result) == TypedKey(ScenarioText[(Len(result) % Len(ScenarioText)) + 1])

InitScenario ==
  /\ InitOn({ ScenarioWidth })
  /\ kind = "Password"
  /\ question = << >>
  /\ passwordCharacter = << "*" >>

NextScenario ==
  \/ Start
  \/ PasswordKeypressUpTo(NextTypedKey(resultPassword), ScenarioLen)
  \/ \E key \in { KeyBackspace, KeyUp, KeyReturn } :
        PasswordKeypressUpTo(key, ScenarioLen)
  \/ Return

SpecScenario == InitScenario /\ [][NextScenario]_vars

(* ------------------------ InstallAction.onExecute ---------------------- *)

InstallRest == { "idle", "done", "failedTool", "failedCommon" }

\* A new run of onExecute begins with its two flags; the statements up to
\* the test of the tool folder's marker file.
Execute(clean, full) ==
  /\ pc \in InstallRest
  /\ runs < MaxRuns
  /\ runs' = runs + 1
  /\ cleanInstall' = clean
  /\ cleanInstallFull' = full
  /\ failedBefore' = CASE pc = "failedTool" -> "tool"
                       [] pc = "failedCommon" -> "common"
                       [] OTHER -> "none"
  /\ ran' = << >>
  /\ needToPrune' = TRUE
  /\ pc' = IF full \/ ~npmToolFlagFile THEN "toolPrepare" ELSE "commonClean"
  /\ UNCHANGED << npmToolFolder, npmToolFlagFile, commonNodeModulesFolder,
                  commonNpmFlagFile >>
  /\ UNCHANGED promptVars

\* The tool folder is deleted if it exists, created anew, and given its
\* package.json.
ToolPrepare ==
  /\ pc = "toolPrepare"
  /\ ran' = IF npmToolFolder THEN Append(ran, "deleteToolFolder") ELSE ran
  /\ npmToolFolder' = TRUE
  /\ npmToolFlagFile' = FALSE
  /\ pc' = "toolInstall"
  /\ UNCHANGED << cleanInstall, cleanInstallFull, commonNodeModulesFolder,
                  commonNpmFlagFile, needToPrune, runs, failedBefore >>
  /\ UNCHANGED promptVars

\* Variant: a failing child process is not noticed.
AfterToolInstall_ErrorSwallowed(ok) == "toolMark"

\* child_process.execSync throws when the child process fails, which ends
\* onExecute; otherwise the next statement runs.
AfterToolInstall(ok) == IF ok THEN "toolMark" ELSE "failedTool"

\* 'npm install' in the tool folder, succeeding or failing.
ToolInstall(ok) ==
  /\ pc = "toolInstall"
  /\ ran' = IF ok THEN Append(ran, "toolInstall") ELSE ran
  /\ pc' = AfterToolInstall(ok)
  /\ UNCHANGED << cleanInstall, cleanInstallFull, npmToolFolder,
                  npmToolFlagFile, commonNodeModulesFolder, commonNpmFlagFile,
                  needToPrune, runs, failedBefore >>
  /\ UNCHANGED promptVars

\* The marker file of the tool folder is written.
ToolMark ==
  /\ pc = "toolMark"
  /\ npmToolFlagFile' = TRUE
  /\ ran' = Append(ran, "toolMark")
  /\ pc' = "commonClean"
  /\ UNCHANGED << cleanInstall, cleanInstallFull, npmToolFolder,
                  commonNodeModulesFolder, commonNpmFlagFile, needToPrune,
                  runs, failedBefore >>
  /\ UNCHANGED promptVars

\* With either clean flag common/node_modules is emptied, if it exists, and
\* nothing needs pruning.
CommonClean ==
  /\ pc = "commonClean"
  /\ IF cleanInstall \/ cleanInstallFull
     THEN /\ needToPrune' = FALSE
          /\ commonNpmFlagFile' = IF commonNodeModulesFolder THEN "none"
                                  ELSE commonNpmFlagFile
          /\ ran' = IF commonNodeModulesFolder
                    THEN Append(ran, "deleteCommonNodeModules") ELSE ran
     ELSE UNCHANGED << needToPrune, commonNpmFlagFile, ran >>
  /\ pc' = "commonCheck"
  /\ UNCHANGED << cleanInstall, cleanInstallFull, npmToolFolder,
                  npmToolFlagFile, commonNodeModulesFolder, runs,
                  failedBefore >>
  /\ UNCHANGED promptVars

\* Utilities.isFileTimestampCurrent(commonNpmFlagFile, package.json)
CommonCheck ==
  /\ pc = "commonCheck"
  /\ pc' = IF commonNpmFlagFile = "current" THEN "finish"
           ELSE IF needToPrune THEN "prune" ELSE "commonInstall"
  /\ UNCHANGED << cleanInstall, cleanInstallFull, npmToolFolder,
                  npmToolFlagFile, commonNodeModulesFolder, commonNpmFlagFile,
                  needToPrune, ran, runs, failedBefore >>
  /\ UNCHANGED promptVars

\* The first child process in the common folder, announced as "npm prune".
Prune(ok) ==
  /\ pc = "prune"
  /\ ran' = IF ok THEN Append(ran, "prune") ELSE ran
  /\ commonNodeModulesFolder' \in { commonNodeModulesFolder, TRUE }
  /\ ok => commonNodeModulesFolder'
  /\ pc' = IF ok THEN "commonInstall" ELSE "failedCommon"
  /\ UNCHANGED << cleanInstall, cleanInstallFull, npmToolFolder,
                  npmToolFlagFile, commonNpmFlagFile, needToPrune, runs,
                  failedBefore >>
  /\ UNCHANGED promptVars

\* 'npm install' in the common folder, succeeding or failing.
CommonInstall(ok) ==
  /\ pc = "commonInstall"
  /\ ran' = IF ok THEN Append(ran, "commonInstall") ELSE ran
  /\ commonNodeModulesFolder' \in { commonNodeModulesFolder, TRUE }
  /\ ok => commonNodeModulesFolder'
  /\ pc' = IF ok THEN "commonMark" ELSE "failedCommon"
  /\ UNCHANGED << cleanInstall, cleanInstallFull, npmToolFolder,
                  npmToolFlagFile, commonNpmFlagFile, needToPrune, runs,
                  failedBefore >>
  /\ UNCHANGED promptVars

\* The marker file of the common folder is written.
CommonMark ==
  /\ pc = "commonMark"
  /\ commonNpmFlagFile' = "current"
  /\ ran' = Append(ran, "commonMark")
  /\ pc' = "finish"
  /\ UNCHANGED << cleanInstall, cleanInstallFull, npmToolFolder,
                  npmToolFlagFile, commonNodeModulesFolder, needToPrune,
                  runs, failedBefore >>
  /\ UNCHANGED promptVars

\* The closing message; onExecute returns.
Finish ==
  /\ pc = "finish"
  /\ pc' = "done"
  /\ UNCHANGED << cleanInstall, cleanInstallFull, npmToolFolder,
                  npmToolFlagFile, commonNodeModulesFolder, commonNpmFlagFile,
                  needToPrune, ran, runs, failedBefore >>
  /\ UNCHANGED promptVars

\* Between two runs common/package.json is edited, which makes a marker
\* file older than it.
EditPackageJson ==
  /\ pc \in InstallRest
  /\ commonNpmFlagFile = "current"
  /\ commonNpmFlagFile' = "stale"
  /\ UNCHANGED << pc, cleanInstall, cleanInstallFull, npmToolFolder,
                  npmToolFlagFile, commonNodeModulesFolder, needToPrune, ran,
                  runs, failedBefore >>
  /\ UNCHANGED promptVars

\* Before the first run the folders and marker files are in any state in
\* which a marker file lies in an existing folder; no prompt is running.
InitInstall ==
  /\ PromptInitOn({ 0 })
  /\ kind = "YesNo"
  /\ question = << >>
  /\ defaultValue = Undefined
  /\ pc = "idle"
  /\ cleanInstall = FALSE
  /\ cleanInstallFull = FALSE
  /\ npmToolFolder \in BOOLEAN
  /\ npmToolFlagFile \in BOOLEAN
  /\ npmToolFlagFile => npmToolFolder
  /\ commonNodeModulesFolder \in BOOLEAN
  /\ commonNpmFlagFile \in { "none", "stale", "current" }
  /\ commonNpmFlagFile # "none" => commonNodeModulesFolder
  /\ needToPrune = TRUE
  /\ ran = << >>
  /\ runs = 0
  /\ failedBefore = "none"

NextInstall ==
  \/ \E clean \in BOOLEAN, full \in BOOLEAN : Execute(clean, full)
  \/ ToolPrepare
  \/ \E ok \in BOOLEAN : ToolInstall(ok)
  \/ ToolMark
  \/ CommonClean
  \/ CommonCheck
  \/ \E ok \in BOOLEAN : Prune(ok)
  \/ \E ok \in BOOLEAN : CommonInstall(ok)
  \/ CommonMark
  \/ Finish
  \/ EditPackageJson

SpecInstall == InitInstall /\ [][NextInstall]_vars

(* ---------------------------- observations ----------------------------- *)

NameY == <<"y">>
NameN == <<"n">>
EnterNames == { KeyEnter.name, KeyReturn.name }

\* The effective wrap width seen by the latest handler.
LastWidth == IF last.columns # 0 THEN last.columns ELSE DefaultWidth

\* The text written by a handler, all its writes concatenated.
RECURSIVE WrittenText(_)
WrittenText(out) ==
  IF out = << >> THEN << >>
  ELSE (IF Head(out).op = "write" THEN Head(out).text ELSE << >>)
       \o WrittenText(Tail(out))

NoBreaks(text) == SelectSeq(text, LAMBDA ch : ch # "\n")
Breaks(text) == Len(SelectSeq(text, LAMBDA ch : ch = "\n"))
Count(out, opName) == Len(SelectSeq(out, LAMBDA e : e.op = opName))

\* The latest handler was a redraw of the masked-line prompt.
Redrawn == kind = "Password" /\ last.redraw

\* This step delivers a keystroke to the masked-line prompt.
PasswordKeyStep == kind = "Password" /\ nKeys' = nKeys + 1

(* ------------------------------- C1 ------------------------------------ *)

\* A key that resolves the confirmation prompt under default dflt.
ResolvesYesNo(name, dflt) ==
  name = NameY \/ name = NameN \/ (name \in EnterNames /\ dflt # Undefined)

\* Position of the first resolving key among the delivered ones, 0 if none.
FirstResolving(names, dflt) ==
  LET hits == { i \in 1..Len(names) : ResolvesYesNo(names[i], dflt) }
  IN  IF hits = {} THEN 0 ELSE CHOOSE i \in hits : \A j \in hits : i <= j

\* C1: the confirmation prompt's result is true iff the first resolving key
\* was y, or Enter/Return with default true; false iff it was n, or
\* Enter/Return with default false; with no default Enter/Return never
\* resolves, so [Enter, Enter, n] yields false; promptYesNo returns it.
C1_YesNoResult ==
  kind = "YesNo" =>
    LET k == FirstResolving(delivered, defaultValue)
    IN  /\ (resultYesNo = True) <=>
             (k > 0 /\ (delivered[k] = NameY
                        \/ (delivered[k] \in EnterNames /\ defaultValue = True)))
        /\ (resultYesNo = False) <=>
             (k > 0 /\ (delivered[k] = NameN
                        \/ (delivered[k] \in EnterNames /\ defaultValue = False)))
        /\ (defaultValue = Undefined
              /\ \A i \in 1..Len(delivered) : delivered[i] \in EnterNames)
             => (resultYesNo = Undefined /\ ~resolved)
        /\ (defaultValue = Undefined
              /\ delivered = << KeyEnter.name, KeyEnter.name, NameN >>)
             => resultYesNo = False
        /\ phase = "Returned" => returned = resultYesNo

C1_Witness ==
  /\ kind = "YesNo"
  /\ defaultValue = Undefined
  /\ delivered = << KeyEnter.name, KeyEnter.name, NameN >>
  /\ phase = "Returned"
  /\ returned = False

(* ------------------------------- C2 ------------------------------------ *)

\* C2: once the loop is resolved, no keystroke delivered afterwards changes
\* the result of either prompt.
C2_ResultFrozen ==
  [][resolved => (resultYesNo' = resultYesNo
                  /\ resultPassword' = resultPassword)]_vars

(* ------------------------------- C3 ------------------------------------ *)

\* C3: the masked-line buffer is mutated only at its tail (a printable key
\* appends its character, Backspace removes the last character, any other
\* key leaves it unchanged), the first Enter/Return writes a line break and
\* resolves with the buffer of that moment, and promptPasswordLine returns
\* that buffer.
C3_TailEditsAndReturn ==
  [][kind = "Password" =>
       /\ (PasswordKeyStep /\ IsEnter(last'.key)) =>
            /\ resultPassword' = resultPassword
            /\ WrittenText(effects') = << "\n" >>
            /\ resolved'
       /\ (PasswordKeyStep /\ last'.key.name = KeyBackspace.name) =>
            resultPassword' = SubSeq(resultPassword, 1, Len(resultPassword) - 1)
       /\ (PasswordKeyStep /\ ~IsEnter(last'.key)
             /\ last'.key.name # KeyBackspace.name) =>
            \/ resultPassword' = resultPassword
            \/ resultPassword' = resultPassword \o last'.key.character
       /\ phase' = "Returned" => returned' = resolvedWith']_vars

(* ------------------------------- C4 ------------------------------------ *)

MaskIsStar == passwordCharacter = Undefined \/ passwordCharacter = << "*" >>

\* C4: with mask character '*', at every terminal width, the text written
\* by a redraw, its line breaks removed, consists of '*' only, as many as
\* the buffer is long.
C4_OnlyStars ==
  (Redrawn /\ MaskIsStar) =>
    LET shown == NoBreaks(WrittenText(effects))
    IN  /\ Len(shown) = Len(resultPassword)
        /\ \A i \in 1..Len(shown) : shown[i] = "*"

C4_Witness ==
  /\ Redrawn /\ MaskIsStar
  /\ resultPassword = << "h", "i", "!" >>
  /\ WrittenText(effects) = << "*", "\n", "*", "*", "\n" >>

(* ------------------------------- C5 ------------------------------------ *)

\* C5 as stated: for 0 <= startColumn < W the number of line breaks emitted
\* by a redraw, and printedRowCount, is
\* floor((startColumn + L) / (W - 1)) - floor(startColumn / (W - 1)).
\* (W = 1 is left out here: the quotient is undefined there.)
C5_WrapLawAsStated ==
  (Redrawn /\ LastWidth >= 2 /\ startX < LastWidth) =>
    LET W == LastWidth
        L == Len(resultPassword)
        law == ((startX + L) \div (W - 1)) - (startX \div (W - 1))
    IN  /\ Breaks(WrittenText(effects)) = law
        /\ printedY = law

\* C5 amended: the law holds with startColumn capped at W - 2, that is, as
\* stated for startColumn <= W - 2, and as if startColumn were W - 2 when it
\* is W - 1 or more; at W = 1 every character is followed by a line break.
C5_WrapLaw ==
  Redrawn =>
    LET W == LastWidth
        L == Len(resultPassword)
        s == Min(startX, W - 2)
        law == IF W = 1 THEN L
               ELSE ((s + L) \div (W - 1)) - (s \div (W - 1))
    IN  /\ Breaks(WrittenText(effects)) = law
        /\ printedY = law

C5_Witness ==
  /\ Redrawn
  /\ LastWidth = 3
  /\ startX = 2
  /\ Len(resultPassword) = 3
  /\ printedY = 2

(* ------------------------------- C6 ------------------------------------ *)

\* C6: Backspace on an empty buffer leaves it empty; on a non-empty buffer
\* it shortens the buffer by exactly one; no length is ever negative.
C6_Backspace ==
  [][kind = "Password" =>
       /\ lastPrintedLength' >= 0
       /\ lastPrintedLength' = Len(resultPassword')
       /\ (PasswordKeyStep /\ last'.key = KeyBackspace) =>
            IF resultPassword = << >> THEN resultPassword' = << >>
            ELSE Len(resultPassword') = Len(resultPassword) - 1]_vars

\* Backspace was the first key, so it met the empty buffer.
C6_Witness ==
  /\ kind = "Password"
  /\ nKeys = 1
  /\ last.key = KeyBackspace
  /\ resultPassword = << >>
  /\ lastPrintedLength = 0

(* ------------------------------- C7 ------------------------------------ *)

\* This step is the second of two redraws in a row of the same buffer, both
\* at the same width.
SecondRedrawOfSameBuffer ==
  /\ PasswordKeyStep
  /\ last.redraw
  /\ last'.redraw
  /\ resultPassword' = resultPassword
  /\ GetLineWrapWidth(last'.columns) = GetLineWrapWidth(last.columns)

\* C7 as stated: two redraws of the same buffer in a row write
\* byte-identical output to the terminal.
C7_SameOutputAsStated ==
  [][SecondRedrawOfSameBuffer
       => TerminalOps(effects') = TerminalOps(effects)]_vars

\* C7 amended: two redraws of the same buffer in a row, at the same width,
\* write byte-identical rendered text (glyphs and line breaks); the cursor
\* movement and line-clear sequences around it may differ.
C7_SameRenderedText ==
  [][SecondRedrawOfSameBuffer
       => WrittenText(effects') = WrittenText(effects)]_vars

\* 'h' wrapped at once, then Up redrew the same buffer: the second redraw
\* moved up a row, which the first had no reason to.
C7_Witness ==
  /\ Redrawn
  /\ nKeys = 2
  /\ last.key = KeyUp
  /\ resultPassword = << "h" >>
  /\ WrittenText(effects) = << "*", "\n" >>
  /\ Count(effects, "moveCursor") = 1

(* ------------------------------- C8 ------------------------------------ *)

\* Every hideCursor among the effects is followed by a showCursor.
Paired(out) ==
  \A i \in 1..Len(out) :
    out[i].op = "hideCursor" =>
      \E j \in (i + 1)..Len(out) :
        /\ out[j].op = "showCursor"
        /\ \A k \in (i + 1)..(j - 1) : out[k].op # "hideCursor"

\* C8: on every exit path of the masked-line prompt's onKeypress each
\* hideCursor is followed by an unhideCursor, so the cursor is visible
\* after every keystroke, the resolving one included.
C8_CursorPaired ==
  kind = "Password" =>
    /\ ~cursorHidden
    /\ Paired(effects)
    /\ Count(effects, "hideCursor") = Count(effects, "showCursor")
    /\ Redrawn => Count(effects, "hideCursor") = 1

\* A redraw after the resolving key: hidden once, shown again.
C8_Witness ==
  /\ Redrawn
  /\ resolved
  /\ nKeys = 3
  /\ Count(effects, "hideCursor") = 1
  /\ effects[Len(effects)] = ShowCursorSeq
  /\ ~cursorHidden

(* ------------------------------- C9 ------------------------------------ *)

\* C9: the glyph rendered for a buffer character is the character itself
\* when the mask is '', the first character of a non-empty mask, and '*'
\* when no mask is configured; "hi" with mask '' renders as "hi".
C9_Glyph ==
  Redrawn =>
    LET shown == NoBreaks(WrittenText(effects))
    IN  /\ Len(shown) = Len(resultPassword)
        /\ \A i \in 1..Len(shown) :
             shown[i] = CASE passwordCharacter = Undefined -> "*"
                          [] passwordCharacter = << >> -> resultPassword[i]
                          [] OTHER -> passwordCharacter[1]
        /\ (passwordCharacter = << >> /\ resultPassword = << "h", "i" >>)
             => shown = << "h", "i" >>

C9_Witness ==
  /\ Redrawn
  /\ passwordCharacter = << "#", "@" >>
  /\ resultPassword = << "h", "i" >>
  /\ NoBreaks(WrittenText(effects)) = << "#", "#" >>

(* ------------------------------- C10 ----------------------------------- *)

\* C10: over the life of the confirmation prompt nothing is written after
\* onStart until it resolves; resolution writes exactly one echo, "Yes\n"
\* for true and "No\n" for false, and then signals completion exactly once;
\* no other keystroke writes or signals.
C10_OneEcho ==
  kind = "YesNo" =>
    /\ resultYesNo = Undefined => (log = << >> /\ resolveCalls = 0)
    /\ resultYesNo = True =>
         log = << Write(<< "Y", "e", "s", "\n" >>), ResolveSignal >>
    /\ resultYesNo = False =>
         log = << Write(<< "N", "o", "\n" >>), ResolveSignal >>
    /\ resolveCalls = Count(log, "resolveAsync")
    /\ (nKeys > 0 /\ FirstResolving(delivered, defaultValue) # nKeys)
         => effects = << >>

C10_Witness ==
  /\ kind = "YesNo"
  /\ delivered = << KeyH.name, NameN, NameY >>
  /\ log = << Write(<< "N", "o", "\n" >>), ResolveSignal >>
  /\ effects = << >>

(* ------------------------------- C11 ----------------------------------- *)

\* C11: resolved is final for both prompts: a keystroke delivered after the
\* prompt has resolved does not call resolveAsync again, writes nothing to
\* standard error and does not redraw.
C11_ResolvedIsFinal ==
  [][(resolved /\ nKeys' = nKeys + 1) =>
       /\ resolveCalls' = resolveCalls
       /\ TerminalOps(effects') = << >>
       /\ ~last'.redraw]_vars

(* ------------------------------- C12 ----------------------------------- *)

\* The typing scenario: mask '*', width 10, startColumn 5, the buffer a
\* prefix of the typed text.
InScenario ==
  /\ Redrawn
  /\ passwordCharacter = << "*" >>
  /\ LastWidth = ScenarioWidth
  /\ startX = 5
  /\ resultPassword = SubSeq(ScenarioText \o ScenarioText, 1, Len(resultPassword))

\* Number of glyphs written before the first line break, or the whole length
\* when there is none.
FirstRowGlyphs(text) ==
  LET hits == { i \in 1..Len(text) : text[i] = "\n" }
  IN  IF hits = {} THEN Len(text)
      ELSE (CHOOSE i \in hits : \A j \in hits : i <= j) - 1

\* C12 as stated: at width 10 and startColumn 5, while "abcdef" is typed the
\* first wrap occurs after the 5th character, not earlier, and
\* printedRowCount is 1 after it.
C12_WrapAfterFifth ==
  InScenario =>
    /\ Len(resultPassword) < 5 => printedY = 0
    /\ Len(resultPassword) \in 5..6 =>
         (printedY = 1 /\ FirstRowGlyphs(WrittenText(effects)) = 5)

\* C12 amended: the column reaches 9 and the first wrap occurs after the 4th
\* character, not earlier; printedRowCount is 1 from then on, through the
\* 6th character and up to the 12th.
C12_WrapAfterFourth ==
  InScenario =>
    /\ Len(resultPassword) < 4 =>
         (printedY = 0 /\ Breaks(WrittenText(effects)) = 0)
    /\ Len(resultPassword) \in 4..12 =>
         /\ printedY = 1
         /\ Breaks(WrittenText(effects)) = 1
         /\ FirstRowGlyphs(WrittenText(effects)) = 4
         /\ startX + FirstRowGlyphs(WrittenText(effects)) = ScenarioWidth - 1

C12_Witness ==
  /\ InScenario
  /\ resultPassword = << "a", "b", "c", "d", "e", "f" >>
  /\ printedY = 1
  /\ WrittenText(effects) = << "*", "*", "*", "*", "\n", "*", "*" >>

(* ------------------------------- C13 ----------------------------------- *)

\* This step is a redraw of the masked-line prompt.
RedrawStep == PasswordKeyStep /\ last'.redraw

\* C13: in every redraw needsClear is true iff the new buffer is shorter
\* than what the previous redraw printed; line-clear sequences are emitted
\* iff needsClear is true, one per row moved up and one after the final
\* write; so a keystroke that appends never emits a line-clear sequence.
C13_ClearOnlyWhenShrinking ==
  [][RedrawStep =>
       LET shrinks == Len(resultPassword') < lastPrintedLength
           clears == Count(effects', "clearLine")
       IN  /\ lastPrintedLength = Len(resultPassword)
           /\ (clears > 0) <=> shrinks
           /\ shrinks => /\ clears = printedY + 1
                         /\ effects'[Len(effects') - 1] = ClearLine(1)
           /\ Len(resultPassword') > Len(resultPassword) => clears = 0]_vars

\* 'h' wrapped, then Backspace: one clear on the row moved up from and one
\* after the final write.
C13_Witness ==
  /\ Redrawn
  /\ nKeys = 2
  /\ last.key = KeyBackspace
  /\ resultPassword = << >>
  /\ Count(effects, "moveCursor") = 1
  /\ Count(effects, "clearLine") = 2

(* ------------------------------- C14 ----------------------------------- *)

\* The screen below and to the right of the question prefix: the glyph
\* cells as triples <<row, column, glyph>>, rows counted from the row the
\* prefix ends on, and the cursor position.
Screen(cells, row, col) == [cells |-> cells, row |-> row, col |-> col]

\* The terminal writing a text at the cursor: a line break moves to the
\* start of the next row, any other character fills the cell at the cursor
\* and moves one cell to the right.
RECURSIVE TypeOut(_, _)
TypeOut(scr, text) ==
  IF text = << >> THEN scr
  ELSE LET ch == Head(text)
           next ==
             IF ch = "\n" THEN Screen(scr.cells, scr.row + 1, 0)
             ELSE Screen({ cell \in scr.cells :
                             ~(cell[1] = scr.row /\ cell[2] = scr.col) }
                           \cup { << scr.row, scr.col, ch >> },
                         scr.row, scr.col + 1)
       IN  TypeOut(next, Tail(text))

\* The terminal obeying one operation.
Obey(scr, e) ==
  CASE e.op = "write" -> TypeOut(scr, e.text)
    [] e.op = "cursorTo" -> Screen(scr.cells, scr.row, e.n)
    [] e.op = "moveCursor" -> Screen(scr.cells, scr.row + e.n, scr.col)
    [] e.op = "clearLine" ->
         Screen({ cell \in scr.cells :
                    ~(/\ cell[1] = scr.row
                      /\ IF e.n = 1 THEN cell[2] >= scr.col
                         ELSE cell[2] <= scr.col) },
                scr.row, scr.col)
    [] OTHER -> scr

RECURSIVE ObeyAll(_, _)
ObeyAll(scr, out) ==
  IF out = << >> THEN scr ELSE ObeyAll(Obey(scr, Head(out)), Tail(out))

\* The screen that shows exactly the buffer: one glyph per character, laid
\* out from startColumn, a new row begun whenever the column after a glyph
\* has reached width - 1; the cursor follows the last glyph.
RECURSIVE LaidOut(_, _, _, _)
LaidOut(scr, glyphs, k, width) ==
  IF k > Len(glyphs) THEN scr
  ELSE LET cells == scr.cells \cup { << scr.row, scr.col, glyphs[k] >> }
       IN  IF scr.col + 1 >= width - 1
           THEN LaidOut(Screen(cells, scr.row + 1, 0), glyphs, k + 1, width)
           ELSE LaidOut(Screen(cells, scr.row, scr.col + 1), glyphs, k + 1, width)

\* The glyphs that stand for a buffer under the configured mask.
Glyphs(result) ==
  [i \in 1..Len(result) |->
     CASE passwordCharacter = Undefined -> "*"
       [] passwordCharacter = << >> -> result[i]
       [] OTHER -> passwordCharacter[1]]

Showing(result) ==
  LaidOut(Screen({}, 0, startX), Glyphs(result), 1, LastWidth)

\* C14: at a fixed width, as long as no Enter/Return has been delivered, a
\* redraw turns the screen that shows exactly the old buffer into the
\* screen that shows exactly the new buffer: as many glyphs as the buffer
\* is long, laid out from startColumn in rows that wrap at width - 1, and
\* no glyph of the longer render before it left on any row.
C14_NoStaleGlyphs ==
  [][(RedrawStep /\ ~resolved) =>
       LET after == ObeyAll(Showing(resultPassword), effects')
           shown == Showing(resultPassword')
       IN  /\ after.cells = shown.cells
           /\ Cardinality(after.cells) = Len(resultPassword')
           /\ after.row = shown.row
           /\ after.row = printedY']_vars

\* Two characters filled two rows at width 2, then Backspace: both rows
\* moved up from and the rest of the final row are cleared, one glyph is left.
C14_Witness ==
  /\ Redrawn
  /\ ~resolved
  /\ nKeys = 3
  /\ last.key = KeyBackspace
  /\ resultPassword = << "h" >>
  /\ LastWidth = 2
  /\ Count(effects, "clearLine") = 3
  /\ Showing(resultPassword).cells = { << 0, startX, "*" >> }

(* ------------------------------- C15 ----------------------------------- *)

\* The rows the cursor is moved up by come first in a redraw: no text is
\* written before the last of them.
MovesUpFirst(out) ==
  \A i, j \in 1..Len(out) :
    (out[i].op = "write" /\ out[j].op = "moveCursor") => j < i

\* The row the cursor is on after the latest handler, counted from the first
\* row of the latest render: the line breaks of that render, and below them
\* the line break of Enter/Return if that is what the latest handler wrote.
CursorRow ==
  IF last.redraw THEN Breaks(WrittenText(effects))
  ELSE printedY + Breaks(WrittenText(effects))

\* C15: after every redraw printedRowCount is the number of line breaks in
\* the output that redraw wrote, never negative; the next redraw moves the
\* cursor up by exactly that number of rows before it writes, which returns
\* the cursor to the first rendered row, and counts the rows of the new
\* render from 0; for any keystroke sequence, also when the width changes
\* between redraws.
C15_RowBookkeeping ==
  [][RedrawStep =>
       /\ printedY >= 0
       /\ last.redraw => printedY = Breaks(WrittenText(effects))
       /\ Count(effects', "moveCursor") = printedY
       /\ MovesUpFirst(effects')
       /\ printedY' = Breaks(WrittenText(effects'))
       /\ lastPrintedLength > 0
            => CursorRow - Count(effects', "moveCursor") = 0]_vars

(* ------------------------------- C16 ----------------------------------- *)

\* The column following the last rendered line of a text on a terminal wide
\* enough not to wrap it: the number of displayed characters after its last
\* line break, or of all of them when it has none.
DisplayColumn(text) ==
  LET shown == removeCodes(text)
  IN  Len(shown) - (LastIndexOf(shown, "\n") + 1)

\* C16: startColumn of the masked-line prompt is computed once in onStart
\* and is the column following the rendered question prefix, its display
\* length modulo the terminal width; for a question with a line break it
\* is the column following the last rendered line of the prefix.
C16_StartColumn ==
  (kind = "Password" /\ phase # "Created") =>
    startX = DisplayColumn(Prefix(question)) % GetLineWrapWidth(columns)

(* ------------------------------- C17 ----------------------------------- *)

\* An optional string that is missing: undefined or ''.
Missing(str) == str = Undefined \/ str = << >>

\* The three exclusions of the printability rule.
NotPrintable(key) ==
  \/ key.character = << >>
  \/ ~Missing(key.name) /\ Len(key.name) > 1 /\ key.name # KeySpace.name
  \/ Missing(key.name) /\ Missing(key.sequence)

\* C17: for every key event that is not Enter/Return the event's character
\* is appended to the buffer iff the character is not empty, the event does
\* not carry a named key longer than one character other than 'space', and
\* it carries a named key or a raw sequence; Backspace never appends its
\* own character and 'space' appends.
C17_Printability ==
  [][(PasswordKeyStep /\ ~IsEnter(last'.key)) =>
       LET key == last'.key
           kept == IF key = KeyBackspace
                   THEN SubSeq(resultPassword, 1, Len(resultPassword) - 1)
                   ELSE resultPassword
       IN  /\ resultPassword' =
                IF NotPrintable(key) THEN kept ELSE kept \o key.character
           /\ key = KeyBackspace => Len(resultPassword') <= Len(resultPassword)
           /\ key = KeySpace => resultPassword' = Append(resultPassword, " ")]_vars

\* Of three events one appended nothing; the event that carries a raw
\* sequence but no name, and then 'space', were appended.
C17_Witness ==
  /\ kind = "Password"
  /\ nKeys = 3
  /\ last.key = KeySpace
  /\ resultPassword = << "!", " " >>
  /\ lastPrintedLength = 2

(* ------------------------------- C18 ----------------------------------- *)

\* C18: every redraw runs to its end at every reported width, 0 or
\* unreported (taken as 80), 1 and 2 included: the render loop makes
\* exactly as many rounds as the buffer is long, the move-up loop exactly
\* printedRowCount rounds, and neither the column counter nor
\* printedRowCount is ever negative.
C18_RedrawTerminates ==
  [][RedrawStep =>
       LET r == Render(resultPassword', startX,
                       PasswordCharacter(passwordCharacter), last'.columns)
       IN  /\ effects'[Len(effects')] = ShowCursorSeq
           /\ r.i = Len(resultPassword')
           /\ Len(NoBreaks(WrittenText(effects'))) = Len(resultPassword')
           /\ Count(effects', "moveCursor") = printedY
           /\ Count(effects', "cursorTo") = printedY + 1
           /\ startX >= 0
           /\ r.column >= 0
           /\ printedY >= 0
           /\ printedY' >= 0
           /\ printedY' <= Len(resultPassword')]_vars

\* Width 1: both characters were followed by a line break, and the redraw
\* for the second moved up the one row of the first.
C18_Witness ==
  /\ Redrawn
  /\ last.columns = 1
  /\ resultPassword = << "h", "i" >>
  /\ printedY = 2
  /\ Count(effects, "moveCursor") = 1

(* ------------------------------- C19 ----------------------------------- *)

\* What the run has done so far includes step.
Ran(step) == \E i \in 1..Len(ran) : ran[i] = step

\* In what the run has done, step a comes before step b.
RanBefore(a, b) ==
  \E i, j \in 1..Len(ran) : i < j /\ ran[i] = a /\ ran[j] = b

\* C19: each LastInstall.txt marker file is written only after the
\* 'npm install' it belongs to has completed without throwing; if that
\* install fails, the run stops with the marker unwritten; and after a
\* failed install of the tool folder the next run finds no marker, deletes
\* the folder and installs again.
C19_MarkerAfterInstall ==
  [][/\ (npmToolFlagFile' /\ ~npmToolFlagFile) => Ran("toolInstall")
     /\ Ran("toolMark")' => RanBefore("toolInstall", "toolMark")'
     /\ (commonNpmFlagFile' = "current" /\ commonNpmFlagFile # "current")
          => Ran("commonInstall")
     /\ Ran("commonMark")' => RanBefore("commonInstall", "commonMark")'
     /\ pc' = "failedTool"
          => (~npmToolFlagFile' /\ ~Ran("toolMark")' /\ ~Ran("toolInstall")')
     /\ pc' = "failedCommon"
          => (commonNpmFlagFile' # "current" /\ ~Ran("commonMark")')
     /\ (pc = "failedTool" /\ runs' = runs + 1)
          => (~npmToolFlagFile /\ npmToolFolder /\ pc' = "toolPrepare")
     /\ (pc = "toolPrepare" /\ pc' # pc /\ failedBefore = "tool")
          => (Ran("deleteToolFolder")' /\ pc' = "toolInstall")]_vars

\* The run after a failed install of the tool folder has deleted the
\* folder, installed and written both marker files.
C19_Witness ==
  /\ runs = 2
  /\ failedBefore = "tool"
  /\ pc = "done"
  /\ npmToolFlagFile
  /\ commonNpmFlagFile = "current"
  /\ RanBefore("deleteToolFolder", "toolInstall")
  /\ RanBefore("toolInstall", "toolMark")
  /\ RanBefore("commonInstall", "commonMark")

====
